---- MODULE Spec2Model ----
(***************************************************************************)
(* CommitCoach (commit-radar) backend: the response normalizer             *)
(* (backend/validator.py) and the post rules (backend/post_rules.py).      *)
(*                                                                         *)
(* Python values are tagged records, so that values of different Python    *)
(* types can be told apart and compared:                                   *)
(*   None  [t |-> "none"]          bool  [t |-> "bool", b |-> TRUE]        *)
(*   int   [t |-> "int", i |-> 5]  str   [t |-> "str", s |-> "abc"]        *)
(*   float [t |-> "float", k |-> "fin", n |-> 37]   (3.7, in tenths)       *)
(*         [t |-> "float", k |-> "nan"], k |-> "inf", "-inf"               *)
(*   list  [t |-> "list", l |-> <<...>>]                                   *)
(*   dict  [t |-> "dict", d |-> [key |-> value, ...]]                      *)
(* A key a dict does not hold maps to Absent.                              *)
(* Text that the code inspects character by character (diff lines, paths,  *)
(* commit messages) is a sequence of one-character strings.                *)
(***************************************************************************)
EXTENDS Integers, Sequences, FiniteSets, TLC

VARIABLES raw, data, diff, message, pc, rets, facts

vars == <<raw, data, diff, message, pc, rets, facts>>

-----------------------------------------------------------------------------
(* Python values *)

Absent == [t |-> "absent"]
None == [t |-> "none"]
BoolV(b) == [t |-> "bool", b |-> b]
IntV(i) == [t |-> "int", i |-> i]
StrV(s) == [t |-> "str", s |-> s]
FloatV(n) == [t |-> "float", k |-> "fin", n |-> n]
FloatNaN == [t |-> "float", k |-> "nan"]
FloatInf == [t |-> "float", k |-> "inf"]
ListV(l) == [t |-> "list", l |-> l]
DictV(d) == [t |-> "dict", d |-> d]

\* {} as the payload object and {} as a commitScore object
EmptyPayload ==
    DictV([commitScore |-> Absent, flags |-> Absent, suggestions |-> Absent,
          suggestedMessage |-> Absent, riskLevel |-> Absent, riskReasons |-> Absent])

EmptyScore == DictV([value |-> Absent, label |-> Absent])

\* bool(v): the truth value Python gives v in `v or default`
Truthy(v) ==
    CASE v.t = "absent" -> FALSE
      [] v.t = "none" -> FALSE
      [] v.t = "bool" -> v.b
      [] v.t = "int" -> v.i # 0
      [] v.t = "float" -> (v.k # "fin" \/ v.n # 0)
      [] v.t = "str" -> v.s # ""
      [] v.t = "list" -> Len(v.l) > 0
      [] v.t = "dict" -> \E k \in DOMAIN v.d : v.d[k] # Absent

\* d.get(k): None when the key is missing
Get(d, k) == IF d.d[k] = Absent THEN None ELSE d.d[k]

\* d.get(k, default)
GetDefault(d, k, default) == IF d.d[k] = Absent THEN default ELSE d.d[k]

\* v or default
OrElse(v, default) == IF Truthy(v) THEN v ELSE default

\* The outcome of a call: it returned val, or raised exc
Returned(v) == [exc |-> "none", val |-> v]
Raised(e) == [exc |-> e, val |-> Absent]

-----------------------------------------------------------------------------
(* int() and str() *)

\* The integer literals int(str) is tried on
MaxLiteral == 150

\* trunc toward zero of n tenths
Trunc(n) == IF n >= 0 THEN n \div 10 ELSE -((-n) \div 10)

\* int(s) for a str: the integer whose decimal literal s is, or ValueError
IntOfStr(s) ==
    IF \E i \in -MaxLiteral..MaxLiteral : ToString(i) = s
    THEN Returned(CHOOSE i \in -MaxLiteral..MaxLiteral : ToString(i) = s)
    ELSE Raised("ValueError")

\* int(v)
PyInt(v) ==
    CASE v.t = "int" -> Returned(v.i)
      [] v.t = "bool" -> Returned(IF v.b THEN 1 ELSE 0)
      [] v.t = "float" ->
            IF v.k = "fin" THEN Returned(Trunc(v.n))
            ELSE IF v.k = "nan" THEN Raised("ValueError")
            ELSE Raised("OverflowError")
      [] v.t = "str" -> IntOfStr(v.s)
      [] OTHER -> Raised("TypeError")

\* str(v) of the values that appear as list items or messages
PyStr(v) ==
    CASE v.t = "str" -> v.s
      [] v.t = "int" -> ToString(v.i)
      [] v.t = "none" -> "None"
      [] v.t = "bool" -> (IF v.b THEN "True" ELSE "False")
      [] v.t = "float" ->
            IF v.k = "fin"
            THEN (IF v.n < 0 THEN "-" ELSE "")
                 \o ToString((IF v.n < 0 THEN -v.n ELSE v.n) \div 10) \o "."
                 \o ToString((IF v.n < 0 THEN -v.n ELSE v.n) % 10)
            ELSE v.k
      [] v.t = "list" -> (IF Len(v.l) = 0 THEN "[]" ELSE "[...]")
      [] OTHER -> (IF Truthy(v) THEN "{...}" ELSE "{}")

-----------------------------------------------------------------------------
(* backend/validator.py *)

\* LabelOf with the Green boundary off by one
LabelOf_StrictGreen(value) ==
    IF value > 80 THEN "Green" ELSE IF value >= 50 THEN "Yellow" ELSE "Red"

\* The label of a score value
LabelOf(value) ==
    IF value >= 80 THEN "Green" ELSE IF value >= 50 THEN "Yellow" ELSE "Red"

Clamp(value) == IF value < 0 THEN 0 ELSE IF value > 100 THEN 100 ELSE value

_normalize_commit_score(d) ==
    LET score == OrElse(Get(d, "commitScore"), EmptyScore)
    IN  IF score.t # "dict"
        THEN Raised("AttributeError")         \* score.get on a non-mapping
        ELSE
          LET value_raw == GetDefault(score, "value", IntV(50))
              coerced == PyInt(value_raw)
          IN  IF coerced.exc \notin {"none", "ValueError", "TypeError"}
              THEN Raised(coerced.exc)        \* not caught by the except
              ELSE
                LET value == Clamp(IF coerced.exc = "none" THEN coerced.val ELSE 50)
                IN  Returned(DictV([value |-> IntV(value),
                                   label |-> StrV(LabelOf(value))]))

StrItems(l) == [i \in 1..Len(l) |-> StrV(PyStr(l[i]))]

_normalize_str_list(value) ==
    CASE value.t = "none" -> ListV(<<>>)
      [] value.t = "str" -> ListV(<<value>>)
      [] value.t = "list" -> ListV(StrItems(value.l))
      [] OTHER -> ListV(<<>>)

_normalize_suggested_message(value) ==
    CASE value.t = "none" -> StrV("")
      [] value.t = "str" -> value
      [] OTHER -> StrV(PyStr(value))

validate_response(arg) ==
    LET d == IF arg.t # "dict" THEN EmptyPayload ELSE arg
        cs == _normalize_commit_score(d)
    IN  IF cs.exc # "none"
        THEN Raised(cs.exc)
        ELSE Returned(DictV(
               [d.d EXCEPT
                  !.commitScore = cs.val,
                  !.flags = _normalize_str_list(Get(d, "flags")),
                  !.suggestions = _normalize_str_list(Get(d, "suggestions")),
                  !.suggestedMessage =
                      _normalize_suggested_message(
                          GetDefault(d, "suggestedMessage", StrV("")))]))

-----------------------------------------------------------------------------
(* Text: str methods over sequences of characters *)

StartsWith(s, p) == Len(s) >= Len(p) /\ SubSeq(s, 1, Len(p)) = p

EndsWith(s, p) == Len(s) >= Len(p) /\ SubSeq(s, Len(s) - Len(p) + 1, Len(s)) = p

\* p in s
Contains(s, p) == \E i \in 1..(Len(s) - Len(p) + 1) : SubSeq(s, i, i + Len(p) - 1) = p

IsSpace(c) == c = " " \/ c = "\t"

RECURSIVE LStrip(_)
LStrip(s) == IF s # <<>> /\ IsSpace(Head(s)) THEN LStrip(Tail(s)) ELSE s

RECURSIVE RStrip(_)
RStrip(s) ==
    IF s # <<>> /\ IsSpace(s[Len(s)]) THEN RStrip(SubSeq(s, 1, Len(s) - 1)) ELSE s

Strip(s) == RStrip(LStrip(s))

UpperCase == <<"A","B","C","D","E","F","G","H","I","J","K","L","M","N","O","P","Q","R","S","T","U","V","W","X","Y","Z">>
LowerCase == <<"a","b","c","d","e","f","g","h","i","j","k","l","m","n","o","p","q","r","s","t","u","v","w","x","y","z">>

LowerChar(c) ==
    IF \E i \in 1..Len(UpperCase) : UpperCase[i] = c
    THEN LowerCase[CHOOSE i \in 1..Len(UpperCase) : UpperCase[i] = c]
    ELSE c

\* s.lower()
Lower(s) == [i \in 1..Len(s) |-> LowerChar(s[i])]

\* The first position from i on that holds no whitespace (Len(s) + 1 if none)
RECURSIVE SkipSpace(_, _)
SkipSpace(s, i) == IF i <= Len(s) /\ IsSpace(s[i]) THEN SkipSpace(s, i + 1) ELSE i

\* The first position from i on that holds whitespace (Len(s) + 1 if none)
RECURSIVE WordEnd(_, _)
WordEnd(s, i) == IF i <= Len(s) /\ ~IsSpace(s[i]) THEN WordEnd(s, i + 1) ELSE i

\* s.split(): the words of s, split at runs of whitespace.  SplitFrom gives
\* the words from position i on, SplitWord those from the word s[i..j-1] on.
RECURSIVE SplitFrom(_, _)
RECURSIVE SplitWord(_, _, _)
SplitWord(s, i, j) == IF i > Len(s) THEN <<>> ELSE <<SubSeq(s, i, j - 1)>> \o SplitFrom(s, j)

SplitFrom(s, i) == SplitWord(s, SkipSpace(s, i), WordEnd(s, SkipSpace(s, i)))

Split(s) == SplitFrom(s, 1)

\* s.split(":", 1)[0]: s up to its first colon (all of s when it has none)
RECURSIVE BeforeColon(_)
BeforeColon(s) ==
    IF s = <<>> \/ Head(s) = ":" THEN <<>> ELSE <<Head(s)>> \o BeforeColon(Tail(s))

-----------------------------------------------------------------------------
(* backend/post_rules.py: the diff helpers.                                *)
(* A diff is the sequence of its lines, run-length encoded: a run          *)
(* [line |-> l, n |-> k] stands for k consecutive copies of the line l.    *)

P_print == <<"p","r","i","n","t","(">>
P_console_log == <<"c","o","n","s","o","l","e",".","l","o","g","(">>
P_debugger == <<"d","e","b","u","g","g","e","r">>
P_println == <<"S","y","s","t","e","m",".","o","u","t",".","p","r","i","n","t","l","n","(">>
P_fmt_Println == <<"f","m","t",".","P","r","i","n","t","l","n","(">>
P_diff_git == <<"d","i","f","f"," ","-","-","g","i","t"," ">>
P_b_slash == <<"b","/">>
P_plus3 == <<"+","+","+">>
P_minus3 == <<"-","-","-">>
P_plus == <<"+">>
P_minus == <<"-">>
P_tests_dir == <<"t","e","s","t","s","/">>
P_slash_tests_dir == <<"/","t","e","s","t","s","/">>
P_underscore_test_py == <<"_","t","e","s","t",".","p","y">>
P_test_py == <<"t","e","s","t",".","p","y">>
BackendSuffixes == {<<".","p","y">>, <<".","c","s">>, <<".","j","a","v","a">>, <<".","g","o">>, <<".","r","b">>, <<".","t","s">>, <<".","t","s","x">>}
FrontendSuffixes == {<<".","c","s","s">>, <<".","s","c","s","s">>, <<".","s","a","s","s">>, <<".","h","t","m","l">>, <<".","v","u","e">>}
prefixes == {<<"f","e","a","t">>, <<"f","i","x">>, <<"r","e","f","a","c","t","o","r">>, <<"c","h","o","r","e">>, <<"d","o","c","s">>, <<"t","e","s","t">>, <<"s","t","y","l","e">>, <<"p","e","r","f">>}

Run(l, k) == [line |-> l, n |-> k]

\* The checks has_debug_statements makes on a stripped added line
DebugText(stripped) ==
    \/ StartsWith(stripped, P_print)
    \/ Contains(stripped, P_console_log)
    \/ Contains(stripped, P_debugger)
    \/ Contains(stripped, P_println)
    \/ Contains(stripped, P_fmt_Println)

\* One line of has_debug_statements' loop: does this line make it return True
DebugLine(line) == StartsWith(line, P_plus) /\ DebugText(LStrip(Tail(line)))

has_debug_statements(d) ==
    \E r \in 1..Len(d) : d[r].n > 0 /\ DebugLine(d[r].line)

\* The path extract_files_from_diff takes from one line, as a list of 0 or 1 paths
StripB(b_path) ==
    IF StartsWith(b_path, P_b_slash) THEN SubSeq(b_path, 3, Len(b_path)) ELSE b_path

FileOfParts(parts) == IF Len(parts) >= 4 THEN <<StripB(parts[4])>> ELSE <<>>

FileOfLine(line) ==
    IF StartsWith(line, P_diff_git) THEN FileOfParts(Split(line)) ELSE <<>>

\* s * k: k copies of the list s, one after the other
Repeat(s, k) ==
    IF s = <<>> \/ k <= 0 THEN <<>>
    ELSE [i \in 1..(k * Len(s)) |-> s[((i - 1) % Len(s)) + 1]]

RECURSIVE extract_files_from_diff(_)
extract_files_from_diff(d) ==
    IF d = <<>> THEN <<>>
    ELSE Repeat(FileOfLine(Head(d).line), Head(d).n) \o extract_files_from_diff(Tail(d))

\* Whether count_changed_lines counts this line
CountedLine(line) ==
    /\ line # <<>>
    /\ ~(StartsWith(line, P_plus3) \/ StartsWith(line, P_minus3))
    /\ (StartsWith(line, P_plus) \/ StartsWith(line, P_minus))

RECURSIVE count_changed_lines(_)
count_changed_lines(d) ==
    IF d = <<>> THEN 0
    ELSE (IF CountedLine(Head(d).line) THEN Head(d).n ELSE 0)
         + count_changed_lines(Tail(d))

\* The test-path heuristic on one lower-cased path
TestLikeLower(lf) ==
    \/ StartsWith(lf, P_tests_dir)
    \/ Contains(lf, P_slash_tests_dir)
    \/ EndsWith(lf, P_underscore_test_py)
    \/ EndsWith(lf, P_test_py)

TestLike(f) == TestLikeLower(Lower(f))

has_test_files(files) == \E i \in 1..Len(files) : TestLike(files[i])

has_only_tests(files) ==
    IF files = <<>> THEN FALSE
    ELSE IF ~has_test_files(files) THEN FALSE
    ELSE Cardinality({i \in 1..Len(files) : TestLike(files[i])}) = Len(files)

has_mixed_concerns(files) ==
    LET has_backend ==
            \E i \in 1..Len(files) : \E x \in BackendSuffixes : EndsWith(files[i], x)
        has_frontend_assets ==
            \E i \in 1..Len(files) : \E x \in FrontendSuffixes : EndsWith(files[i], x)
    IN  has_backend /\ has_frontend_assets

\* The check on first, the text before the colon
ConventionalHead(first) ==
    \E p \in prefixes : first = p \/ StartsWith(first, p \o <<"(">>)

\* The checks on the stripped message
ConventionalText(m) ==
    IF ~Contains(m, <<":">>) THEN FALSE ELSE ConventionalHead(Strip(BeforeColon(m)))

message_looks_conventional(msg) == ConventionalText(Strip(msg))

\* The locals apply_post_rules computes from its diff and message
FactsOf(files, d, msg) ==
    [files |-> files,
     total_changed |-> count_changed_lines(d),
     has_tests |-> has_test_files(files),
     only_tests |-> has_only_tests(files),
     mixed |-> has_mixed_concerns(files),
     debug |-> has_debug_statements(d),
     conventional |-> message_looks_conventional(msg)]

Facts(d, msg) == FactsOf(extract_files_from_diff(d), d, msg)

-----------------------------------------------------------------------------
(* backend/post_rules.py: apply_post_rules *)

Range(f) == {f[i] : i \in DOMAIN f}

\* A rule row without a risk reason
NoReason == ""

\* The body of one rule that fired, on the locals
\* [score, flags, risk_score, risk_reasons]; exc is the exception raised so far.
\* risk_reasons.append raises AttributeError when risk_reasons is no list.
Fire(st, delta, flag, risk, reason) ==
    IF st.exc # "none" THEN st
    ELSE LET st1 == [st EXCEPT
                       !.score = @ + delta,
                       !.flags = IF StrV(flag) \in Range(@) THEN @
                                 ELSE Append(@, StrV(flag)),
                       !.risk_score = @ + risk]
         IN  IF reason = NoReason THEN st1
             ELSE IF st1.risk_reasons.t # "list"
             THEN [st1 EXCEPT !.exc = "AttributeError"]
             ELSE [st1 EXCEPT !.risk_reasons = ListV(Append(@.l, StrV(reason)))]

\* SizeRule with the tiers as separate ifs, so that a large diff takes them all
SizeRule_Cumulative(st, f) ==
    Fire(Fire(Fire(st,
                   IF f.total_changed > 800 THEN -15 ELSE 0,
                   IF f.total_changed > 800 THEN "Very large diff" ELSE "",
                   IF f.total_changed > 800 THEN 2 ELSE 0, NoReason),
              IF f.total_changed > 400 THEN -8 ELSE 0,
              IF f.total_changed > 400 THEN "Commit bigger than recommended" ELSE "",
              IF f.total_changed > 400 THEN 1 ELSE 0, NoReason),
         IF f.total_changed > 200 THEN -4 ELSE 0,
         IF f.total_changed > 200 THEN "Commit slightly bigger than recommended" ELSE "",
         IF f.total_changed > 200 THEN 1 ELSE 0, NoReason)

\* 1) commit size
SizeRule(st, f) ==
    IF f.total_changed > 800
    THEN Fire(st, -15, "Very large diff", 2, "Very large diff")
    ELSE IF f.total_changed > 400
    THEN Fire(st, -8, "Commit bigger than recommended", 1, "Large diff")
    ELSE IF f.total_changed > 200
    THEN Fire(st, -4, "Commit slightly bigger than recommended", 1, "Medium-sized diff")
    ELSE st

\* 2) tests
MissingTestsRule(st, f) ==
    IF ~f.only_tests /\ f.total_changed > 80 /\ ~f.has_tests
    THEN Fire(st, -10, "Missing tests", 2, "Significant change without tests")
    ELSE st

TestOnlyRule(st, f) ==
    IF f.only_tests THEN Fire(st, 5, "Test-only change", 0, NoReason) ELSE st

\* 3) mixed concerns
MixedRule(st, f) ==
    IF f.mixed
    THEN Fire(st, -5, "Mixed concerns (logic + styles)", 1,
              "Mixed concerns (logic + styles)")
    ELSE st

\* 4) debug prints
DebugRule(st, f) ==
    IF f.debug
    THEN Fire(st, -3, "Debug prints present", 1, "Debug prints present")
    ELSE st

\* 5) commit message
MessageRule(st, f) ==
    IF f.conventional
    THEN Fire(st, 5, "Commit message follows Conventional Commits", 0, NoReason)
    ELSE Fire(st, -5, "Commit message could follow Conventional Commits", 1,
              "Commit message not following Conventional Commits")

RiskLevelOf(risk_score) ==
    IF risk_score >= 3 THEN "High" ELSE IF risk_score >= 1 THEN "Medium" ELSE "Low"

\* RunRules with the risk accumulator seeded from the riskLevel it was given
RunRules_SeededRisk(d, f) ==
    LET st0 == [score |-> PyInt(GetDefault(GetDefault(d, "commitScore", EmptyScore),
                                           "value", IntV(50))).val,
                flags |-> OrElse(GetDefault(d, "flags", ListV(<<>>)), ListV(<<>>)).l,
                risk_score |-> IF d.d.riskLevel = StrV("High") THEN 3
                               ELSE IF d.d.riskLevel = StrV("Medium") THEN 1 ELSE 0,
                risk_reasons |->
                    OrElse(GetDefault(d, "riskReasons", ListV(<<>>)), ListV(<<>>)),
                exc |-> "none"]
    IN  MessageRule(DebugRule(MixedRule(TestOnlyRule(MissingTestsRule(
            SizeRule(st0, f), f), f), f), f), f)

\* The locals after all the rules
RunRules(d, f) ==
    LET st0 == [score |-> PyInt(GetDefault(GetDefault(d, "commitScore", EmptyScore),
                                           "value", IntV(50))).val,
                flags |-> OrElse(GetDefault(d, "flags", ListV(<<>>)), ListV(<<>>)).l,
                risk_score |-> 0,
                risk_reasons |->
                    OrElse(GetDefault(d, "riskReasons", ListV(<<>>)), ListV(<<>>)),
                exc |-> "none"]
    IN  MessageRule(DebugRule(MixedRule(TestOnlyRule(MissingTestsRule(
            SizeRule(st0, f), f), f), f), f), f)

\* ClampFinal without the lower clamp
ClampFinal_NoFloor(score) == IF score > 100 THEN 100 ELSE score

\* Clamp score 0-100, after the rules
ClampFinal(score) == IF score < 0 THEN 0 ELSE IF score > 100 THEN 100 ELSE score

\* data["commitScore"]["value"] = score: the label stays what it was
ScoreWritten(commitScore, score) ==
    DictV([commitScore.d EXCEPT !.value = IntV(ClampFinal(score))])

\* The end of apply_post_rules(data, diff, message), data being what
\* validate_response returned: the outcome, and heap, the dict object data
\* after the call.  The
\* function works on the object it is given: flags and risk_reasons are the
\* lists held by data whenever those are non-empty, so the appends reach data
\* even when the call raises before its final assignments.
\* The object returned, which is the object given
Outcome(out) == [exc |-> "none", val |-> out, heap |-> out]

\* The end of apply_post_rules, st being the locals after the rules
Finish(d, st) ==
    IF st.exc # "none"
    THEN [exc |-> st.exc, val |-> Absent,
          heap |-> IF Truthy(d.d.flags)
                   THEN DictV([d.d EXCEPT !.flags = ListV(st.flags)])
                   ELSE d]
    ELSE Outcome(DictV([d.d EXCEPT
                          !.commitScore = ScoreWritten(@, st.score),
                          !.flags = ListV(st.flags),
                          !.riskLevel = StrV(RiskLevelOf(st.risk_score)),
                          !.riskReasons = st.risk_reasons]))

\* apply_post_rules from line 149 on, f being the locals computed from the diff
\* and the message
apply_post_rules(d, f) == Finish(d, RunRules(d, f))

-----------------------------------------------------------------------------
(* Inputs: diff lines and commit messages *)

\* 'diff --git a/tests/t.py b/tests/t.py'
H_tests == <<"d","i","f","f"," ","-","-","g","i","t"," ","a","/","t","e","s","t","s","/","t",".","p","y"," ","b","/","t","e","s","t","s","/","t",".","p","y">>
\* 'diff --git a/app.py b/app.py'
H_app == <<"d","i","f","f"," ","-","-","g","i","t"," ","a","/","a","p","p",".","p","y"," ","b","/","a","p","p",".","p","y">>
\* 'diff --git a/s.css b/s.css'
H_css == <<"d","i","f","f"," ","-","-","g","i","t"," ","a","/","s",".","c","s","s"," ","b","/","s",".","c","s","s">>
\* 'diff --git a/src/Tests/T.java b/src/Tests/T.java'
H_Tests_upper == <<"d","i","f","f"," ","-","-","g","i","t"," ","a","/","s","r","c","/","T","e","s","t","s","/","T",".","j","a","v","a"," ","b","/","s","r","c","/","T","e","s","t","s","/","T",".","j","a","v","a">>
\* 'diff --git a/app.py'
H_short == <<"d","i","f","f"," ","-","-","g","i","t"," ","a","/","a","p","p",".","p","y">>
\* '+x = 1'
L_add == <<"+","x"," ","="," ","1">>
\* '-y = 2'
L_del == <<"-","y"," ","="," ","2">>
\* ' z = 3'
L_ctx == <<" ","z"," ","="," ","3">>
\* '@@ -1 +1 @@'
L_hunk == <<"@","@"," ","-","1"," ","+","1"," ","@","@">>
\* '+'
L_plus_only == <<"+">>
\* '+print(x)'
L_add_print == <<"+","p","r","i","n","t","(","x",")">>
\* '+x = print(1)'
L_add_print_inner == <<"+","x"," ","="," ","p","r","i","n","t","(","1",")">>
\* '+  console.log(1)'
L_add_console == <<"+"," "," ","c","o","n","s","o","l","e",".","l","o","g","(","1",")">>
\* '+ debugger;'
L_add_debugger == <<"+"," ","d","e","b","u","g","g","e","r",";">>
\* '+System.out.println(x)'
L_add_println == <<"+","S","y","s","t","e","m",".","o","u","t",".","p","r","i","n","t","l","n","(","x",")">>
\* '+fmt.Println(x)'
L_add_fmt == <<"+","f","m","t",".","P","r","i","n","t","l","n","(","x",")">>
\* '-console.log(1)'
L_del_console == <<"-","c","o","n","s","o","l","e",".","l","o","g","(","1",")">>
\* ' debugger;'
L_ctx_debugger == <<" ","d","e","b","u","g","g","e","r",";">>
\* '+++ b/debugger.py'
L_new_file_debugger == <<"+","+","+"," ","b","/","d","e","b","u","g","g","e","r",".","p","y">>
\* '--- a/app.py'
L_old_file == <<"-","-","-"," ","a","/","a","p","p",".","p","y">>
\* '+++ b/app.py'
L_new_file == <<"+","+","+"," ","b","/","a","p","p",".","p","y">>
\* '+++i'
L_add_incr == <<"+","+","+","i">>
\* '--- comment'
L_del_comment == <<"-","-","-"," ","c","o","m","m","e","n","t">>
\* 'feat(c): a'
M_feat_scope == <<"f","e","a","t","(","c",")",":"," ","a">>
\* 'update'
M_update == <<"u","p","d","a","t","e">>
\* ' fix : x'
M_fix == <<" ","f","i","x"," ",":"," ","x">>
\* 'Fix: x'
M_Fix_upper == <<"F","i","x",":"," ","x">>
\* 'feats: x'
M_feats == <<"f","e","a","t","s",":"," ","x">>

-----------------------------------------------------------------------------
(* Inputs: advisory payloads *)

Payload(cs, fl, sg, sm, rl, rr) ==
    DictV([commitScore |-> cs, flags |-> fl, suggestions |-> sg,
           suggestedMessage |-> sm, riskLevel |-> rl, riskReasons |-> rr])

Score(v, l) == DictV([value |-> v, label |-> l])

Strs(seq) == ListV([i \in 1..Len(seq) |-> StrV(seq[i])])

BaseScore == Score(IntV(70), StrV("Yellow"))
BaseFlags == Strs(<<"Too vague">>)
BaseSuggestions == Strs(<<"Split the commit", "Split the commit">>)
BaseMessage == StrV("feat: add totals")

\* commitScore fields the model may send: in range, at the label and clamp
\* boundaries, out of range, with a label that contradicts the value, missing,
\* and of the wrong type
ScoreFields ==
    { BaseScore, Score(IntV(80), StrV("Green")), Score(IntV(98), StrV("Green")),
      Score(IntV(3), StrV("Red")), Score(IntV(52), StrV("Yellow")),
      Score(IntV(150), StrV("Green")), Score(IntV(-5), StrV("Red")),
      Score(IntV(30), StrV("Green")), Score(StrV("abc"), Absent),
      Absent, StrV("high") }

MoreScoreFields ==
    { None, EmptyScore, StrV(""), IntV(0), IntV(85), ListV(<<>>), ListV(<<IntV(1)>>),
      BoolV(TRUE), Score(Absent, StrV("Green")), Score(None, StrV("Red")),
      Score(BoolV(TRUE), Absent), Score(IntV(0), StrV("Red")),
      Score(IntV(49), StrV("Red")), Score(IntV(50), StrV("Yellow")),
      Score(IntV(79), StrV("Yellow")), Score(IntV(100), StrV("Green")),
      Score(IntV(101), StrV("Green")), Score(IntV(-1), StrV("Red")),
      Score(FloatV(37), StrV("Red")), Score(FloatV(-5), StrV("Red")),
      Score(FloatV(1005), StrV("Green")), Score(FloatV(799), StrV("green")),
      Score(FloatNaN, Absent), Score(FloatInf, StrV("Green")),
      Score(StrV("75"), StrV("Yellow")), Score(StrV("-5"), Absent),
      Score(StrV("150"), Absent), Score(StrV("7.5"), Absent), Score(StrV(""), Absent),
      Score(ListV(<<IntV(90)>>), Absent), Score(EmptyScore, Absent) }

\* flags fields: a rule's flag already present, a repeated string
FlagFields ==
    { BaseFlags, Absent, Strs(<<"dup", "dup">>), Strs(<<"Missing tests">>),
      Strs(<<"Debug prints present", "x", "Debug prints present">>) }

\* string-list fields of every shape
MoreListFields ==
    { None, StrV("single"), StrV(""), ListV(<<>>), IntV(7), EmptyScore,
      ListV(<<StrV("a"), IntV(5), None, BoolV(TRUE), FloatV(37), FloatNaN>>),
      ListV(<<ListV(<<>>), EmptyScore, IntV(-12)>>) }

MessageFields ==
    { BaseMessage, Absent, None, StrV(""), IntV(5), BoolV(FALSE), ListV(<<>>), FloatV(-25) }

\* riskLevel and riskReasons, which validate_response hands on as they came
RiskFields ==
    { <<Absent, Absent>>, <<StrV("High"), Strs(<<"Touches auth">>)>>,
      <<StrV("low"), StrV("unknown")>> }

MoreRiskFields ==
    { <<StrV("Low"), ListV(<<>>)>>, <<StrV("Medium"), Strs(<<"a", "a">>)>>,
      <<StrV("HIGH"), Absent>>, <<None, None>>, <<IntV(3), ListV(<<IntV(1)>>)>>,
      <<ListV(<<>>), IntV(0)>> }

ScorePayloads ==
    {Payload(cs, BaseFlags, BaseSuggestions, BaseMessage, Absent, Absent) :
        cs \in ScoreFields}
    \cup {Payload(BaseScore, fl, BaseSuggestions, BaseMessage, rk[1], rk[2]) :
            fl \in FlagFields, rk \in RiskFields}

NormalizePayloads ==
    ScorePayloads
    \cup {None, ListV(<<>>), StrV("oops"), IntV(5), EmptyPayload}
    \cup {Payload(cs, BaseFlags, BaseSuggestions, BaseMessage, StrV("Low"), ListV(<<>>)) :
            cs \in ScoreFields \cup MoreScoreFields}
    \cup {Payload(BaseScore, fl, BaseSuggestions, BaseMessage, Absent, Absent) :
            fl \in FlagFields \cup MoreListFields}
    \cup {Payload(BaseScore, BaseFlags, sg, BaseMessage, Absent, Absent) :
            sg \in FlagFields \cup MoreListFields}
    \cup {Payload(BaseScore, BaseFlags, BaseSuggestions, sm, rk[1], rk[2]) :
            sm \in MessageFields, rk \in RiskFields \cup MoreRiskFields}

-----------------------------------------------------------------------------
(* Inputs: diffs *)

MaxFiles == 2
MaxLines == 2
MaxCalls == 2

\* Sequences over S of length at most k
RECURSIVE SeqsUpTo(_, _)
SeqsUpTo(S, k) ==
    IF k = 0 THEN {<<>>}
    ELSE LET shorter == SeqsUpTo(S, k - 1)
         IN  shorter \cup {Append(q, x) : q \in shorter, x \in S}

\* Diffs for the rules: the headers of up to MaxFiles files, then added lines up
\* to and across each size threshold, then possibly a debug print
HeaderRuns == {Run(H_tests, 1), Run(H_app, 1), Run(H_css, 1)}

BodyRuns == {<<>>} \cup {<<Run(L_add, k)>> : k \in {80, 81, 200, 201, 400, 401, 800, 801}}

ScoreDiffs ==
    {h \o b \o g : h \in SeqsUpTo(HeaderRuns, MaxFiles), b \in BodyRuns,
                   g \in {<<>>, <<Run(L_add_console, 1)>>}}

ScoreMessages == {M_feat_scope, M_update}

\* Diffs for the helpers: up to MaxLines runs of lines of every kind
InspectRuns ==
    {Run(l, 1) : l \in {H_app, H_Tests_upper, H_short, L_add, L_del, L_ctx, L_hunk,
                        L_plus_only, <<>>, L_add_print, L_add_print_inner,
                        L_add_console, L_add_debugger, L_add_println, L_add_fmt,
                        L_del_console, L_ctx_debugger, L_new_file_debugger,
                        L_old_file, L_new_file, L_add_incr, L_del_comment}}
    \cup {Run(L_add, 3), Run(L_del_comment, 2)}

InspectDiffs == SeqsUpTo(InspectRuns, MaxLines)

InspectMessages == {M_feat_scope, M_update, M_fix, M_Fix_upper, M_feats}

-----------------------------------------------------------------------------
(* The state machine.                                                      *)
(*   raw      the advisory payload as parsed from the model's JSON         *)
(*   data     the object the calls work on (validate_response and          *)
(*            apply_post_rules both write into their argument)             *)
(*   diff, message   the commit under analysis                             *)
(*   pc       "parsed", "normalized", "scored", "returned" or "raised"     *)
(*   rets     the calls made so far: operation, argument as it was at the  *)
(*            call, exception raised, value returned                       *)
(*   facts    the locals the last apply_post_rules computed                *)

NotComputed == [computed |-> FALSE]

Start ==
    /\ data = raw
    /\ pc = "parsed"
    /\ rets = <<>>
    /\ facts = NotComputed

Init ==
    /\ raw \in ScorePayloads
    /\ diff \in ScoreDiffs
    /\ message \in ScoreMessages
    /\ Start

InitNormalize ==
    /\ raw \in NormalizePayloads
    /\ diff = <<>>
    /\ message \in {M_feat_scope}
    /\ Start

\* every message with the diffs of at most one run, one message with the longer
InitInspect ==
    /\ raw \in {Payload(BaseScore, BaseFlags, BaseSuggestions, BaseMessage, Absent, Absent)}
    /\ diff \in InspectDiffs
    /\ message \in (IF Len(diff) <= 1 THEN InspectMessages ELSE {M_update})
    /\ Start

Call(op, arg, r) == [op |-> op, arg |-> arg, exc |-> r.exc, val |-> r.val]

\* validate_response(parsed); a repeated call normalizes the result again
ValidateResponse ==
    /\ pc \in {"parsed", "normalized"}
    /\ Len(rets) < MaxCalls
    /\ LET r == validate_response(data)
       IN  /\ rets' = Append(rets, Call("validate_response", data, r))
           /\ data' = IF r.exc = "none" THEN r.val ELSE data
           /\ pc' = IF r.exc = "none" THEN "normalized" ELSE "raised"
    /\ UNCHANGED <<raw, diff, message, facts>>

\* apply_post_rules(data, diff, message) on the normalized object; a repeated
\* call is given the same object again
ApplyPostRules ==
    /\ \/ pc = "normalized" /\ Len(rets) = 1
       \/ pc = "scored" /\ Len(rets) <= MaxCalls
    /\ facts' = Facts(diff, message)
    /\ \E r \in {apply_post_rules(data, facts')} :
           /\ rets' = Append(rets, Call("apply_post_rules", data, r))
           /\ data' = r.heap
           /\ pc' = IF r.exc = "none" THEN "scored" ELSE "raised"
    /\ UNCHANGED <<raw, diff, message>>

\* analyze_commit(diff, message): the model's answer is parsed with json.loads
\* (RuntimeError when it is no valid JSON) and validate_response(parsed) is
\* returned to the caller; its exceptions reach the caller too
AnalyzeCommit ==
    /\ pc = "parsed"
    /\ rets = <<>>
    /\ \E valid \in BOOLEAN :
           \E r \in {IF valid THEN validate_response(data) ELSE Raised("RuntimeError")} :
               /\ rets' = <<Call("analyze_commit", data, r)>>
               /\ data' = IF r.exc = "none" THEN r.val ELSE data
               /\ pc' = IF r.exc = "none" THEN "returned" ELSE "raised"
    /\ UNCHANGED <<raw, diff, message, facts>>

Next == ValidateResponse \/ ApplyPostRules \/ AnalyzeCommit

Spec == Init /\ [][Next]_vars

SpecNormalize == InitNormalize /\ [][Next]_vars

SpecInspect == InitInspect /\ [][Next]_vars

-----------------------------------------------------------------------------
(* Properties *)

IsCall(i, op) == i \in 1..Len(rets) /\ rets[i].op = op

\* The calls of op that returned
ReturnedCalls(op) == {i \in 1..Len(rets) : rets[i].op = op /\ rets[i].exc = "none"}

ValueOf(d) == d.d.commitScore.d.value

LabelField(d) == d.d.commitScore.d.label

NoDuplicates(l) == \A i, j \in 1..Len(l) : l[i] = l[j] => i = j

IsStrList(v) == v.t = "list" /\ \A i \in 1..Len(v.l) : v.l[i].t = "str"

RiskLevels == {StrV("Low"), StrV("Medium"), StrV("High")}

\* The advisory score value of the payload: Absent when the payload is no
\* mapping, holds no commitScore mapping, or that mapping holds no value
RawValue ==
    IF raw.t # "dict" THEN Absent
    ELSE IF raw.d.commitScore.t # "dict" THEN Absent
    ELSE raw.d.commitScore.d.value

\* C1: validate_response never raises, whatever the payload.
C1_NormalizeNeverRaises ==
    \A i \in 1..Len(rets) : rets[i].op = "validate_response" => rets[i].exc = "none"

\* C2: after every apply_post_rules that returned, the label is the one derived
\* from the final score: >= 80 Green, >= 50 Yellow, else Red.
C2_LabelMatchesFinalScore ==
    \A i \in ReturnedCalls("apply_post_rules") :
        LabelField(rets[i].val) =
            StrV(IF ValueOf(rets[i].val).i >= 80 THEN "Green"
                 ELSE IF ValueOf(rets[i].val).i >= 50 THEN "Yellow" ELSE "Red")

\* C3: every result produced, by validate_response or by apply_post_rules, has
\* an integer score in 0..100; validate_response brings an advisory integer
\* below 0 to 0 and one above 100 to 100, and gives 50 when the value is absent
\* or of a type or text int() rejects, so the rules start from a score in
\* 0..100; apply_post_rules clamps again after its deltas.
C3_ScoreInRange ==
    /\ \A i \in 1..Len(rets) :
          rets[i].exc = "none" =>
             /\ ValueOf(rets[i].val).t = "int"
             /\ ValueOf(rets[i].val).i \in 0..100
    /\ \A i \in ReturnedCalls("apply_post_rules") : ValueOf(rets[i].arg).i \in 0..100
    /\ 1 \in ReturnedCalls("validate_response") =>
          /\ RawValue.t = "int" =>
                ValueOf(rets[1].val).i =
                    (IF RawValue.i < 0 THEN 0 ELSE IF RawValue.i > 100 THEN 100
                     ELSE RawValue.i)
          /\ (RawValue.t \in {"absent", "none", "list", "dict"}
              \/ RawValue \in {StrV("abc"), StrV("7.5"), StrV(""), FloatNaN}) =>
                ValueOf(rets[1].val).i = 50

\* An advisory score above 100 was clamped to 100, and the rules that then
\* added to it left 100
C3_Witness ==
    /\ pc = "scored"
    /\ RawValue = IntV(150)
    /\ ValueOf(rets[1].val) = IntV(100)
    /\ facts.conventional /\ facts.total_changed = 0 /\ ~facts.mixed
    /\ ValueOf(data) = IntV(100)

\* C4: the flags apply_post_rules returns hold no string twice.
C4_FlagsDistinct ==
    \A i \in ReturnedCalls("apply_post_rules") : NoDuplicates(rets[i].val.d.flags.l)

\* C5: what validate_response returns carries a riskLevel among Low, Medium,
\* High (the payload's when it is one of the three, Medium otherwise) and a
\* riskReasons that is a list of strings.
C5_RiskLevelNormalized ==
    1 \in ReturnedCalls("validate_response") =>
        /\ rets[1].val.d.riskLevel \in RiskLevels
        /\ rets[1].val.d.riskLevel =
              (IF raw.t = "dict" /\ raw.d.riskLevel \in RiskLevels
               THEN raw.d.riskLevel ELSE StrV("Medium"))
        /\ IsStrList(rets[1].val.d.riskReasons)

\* The risk deltas of the rule table's rows that hold of the facts f
RiskDeltas(f) ==
    (IF f.total_changed > 800 THEN 2 ELSE IF f.total_changed > 200 THEN 1 ELSE 0)
    + (IF ~f.only_tests /\ f.total_changed > 80 /\ ~f.has_tests THEN 2 ELSE 0)
    + (IF f.mixed THEN 1 ELSE 0)
    + (IF f.debug THEN 1 ELSE 0)
    + (IF f.conventional THEN 0 ELSE 1)

\* C6: the riskLevel apply_post_rules returns is decided by the sum of the risk
\* deltas of the rules that fired, counted from 0 at every call: 3 or more
\* High, 1 or 2 Medium, 0 Low; whatever riskLevel and riskReasons the object
\* given carried.
C6_RiskLevelFromAccumulator ==
    \A i \in ReturnedCalls("apply_post_rules") :
        rets[i].val.d.riskLevel =
            StrV(IF RiskDeltas(facts) >= 3 THEN "High"
                 ELSE IF RiskDeltas(facts) >= 1 THEN "Medium" ELSE "Low")

\* A payload that said High, with a reason of its own, comes out Low
C6_Witness ==
    /\ pc = "scored"
    /\ raw.d.riskLevel = StrV("High")
    /\ Len(raw.d.riskReasons.l) > 0
    /\ data.d.riskLevel = StrV("Low")

\* The score deltas of the rule table's rows that hold of the facts f
SizeDelta(f) ==
    IF f.total_changed > 800 THEN -15
    ELSE IF f.total_changed > 400 THEN -8
    ELSE IF f.total_changed > 200 THEN -4
    ELSE 0

ScoreDeltas(f) ==
    SizeDelta(f)
    + (IF f.total_changed > 80 /\ ~f.has_tests THEN -10 ELSE 0)
    + (IF f.only_tests THEN 5 ELSE 0)
    + (IF f.mixed THEN -5 ELSE 0)
    + (IF f.debug THEN -3 ELSE 0)
    + (IF f.conventional THEN 5 ELSE -5)

FlagSet(d) == {d.d.flags.l[k] : k \in 1..Len(d.d.flags.l)}

SizeFlags ==
    {StrV("Very large diff"), StrV("Commit bigger than recommended"),
     StrV("Commit slightly bigger than recommended")}

MessageFlags ==
    {StrV("Commit message follows Conventional Commits"),
     StrV("Commit message could follow Conventional Commits")}

\* C7: the score apply_post_rules returns is the score it was given plus the
\* deltas of the rows that hold, brought into 0..100: one size tier at most,
\* one of the two message rows, and never both the missing-tests row and the
\* test-only row (a test-only diff has test files).  The flags tell the same:
\* the one size flag of the tier, the one message flag, and no "Missing tests"
\* beside "Test-only change" unless the payload brought it.
C7_FinalScore ==
    \A i \in ReturnedCalls("apply_post_rules") :
        /\ facts.only_tests => facts.has_tests
        /\ LET sum == ValueOf(rets[i].arg).i + ScoreDeltas(facts)
           IN  ValueOf(rets[i].val).i =
                   (IF sum < 0 THEN 0 ELSE IF sum > 100 THEN 100 ELSE sum)
        /\ SizeFlags \cap FlagSet(rets[i].val) =
              (IF facts.total_changed > 800 THEN {StrV("Very large diff")}
               ELSE IF facts.total_changed > 400
               THEN {StrV("Commit bigger than recommended")}
               ELSE IF facts.total_changed > 200
               THEN {StrV("Commit slightly bigger than recommended")}
               ELSE {})
        /\ MessageFlags \cap FlagSet(rets[i].val) =
              {StrV(IF facts.conventional
                    THEN "Commit message follows Conventional Commits"
                    ELSE "Commit message could follow Conventional Commits")}
        /\ StrV("Test-only change") \in FlagSet(rets[i].val) =>
              (StrV("Missing tests") \in FlagSet(rets[i].val)
                 => StrV("Missing tests") \in FlagSet(rets[1].val))

\* 70, a very large diff without tests, a message that is not conventional: 40
C7_Witness ==
    /\ pc = "scored"
    /\ Len(rets) = 2
    /\ ValueOf(rets[2].arg) = IntV(70)
    /\ facts.total_changed > 800
    /\ facts.files # <<>> /\ ~facts.has_tests /\ ~facts.mixed /\ ~facts.debug
    /\ ~facts.conventional
    /\ ValueOf(data) = IntV(40)

\* C8: apply_post_rules leaves the object it was given as it was, so a second
\* call with the same object, diff and message is given the same baseline and
\* returns an equal result.
C8_Pure ==
    \A i \in 2..Len(rets) :
        (rets[i].op = "apply_post_rules" /\ rets[i - 1].op = "apply_post_rules") =>
            /\ rets[i].arg = rets[i - 1].arg
            /\ rets[i].val = rets[i - 1].val

\* The CommitAnalysis schema
Conformant(x) ==
    /\ x.t = "dict"
    /\ x.d.commitScore.t = "dict"
    /\ ValueOf(x).t = "int"
    /\ ValueOf(x).i \in 0..100
    /\ LabelField(x) =
          StrV(IF ValueOf(x).i >= 80 THEN "Green"
               ELSE IF ValueOf(x).i >= 50 THEN "Yellow" ELSE "Red")
    /\ IsStrList(x.d.flags)
    /\ IsStrList(x.d.suggestions)
    /\ x.d.suggestedMessage.t = "str"
    /\ x.d.riskLevel \in RiskLevels
    /\ IsStrList(x.d.riskReasons)

\* C9: validate_response returns a conformant payload equal to what it was
\* given, field by field; and normalizing what validate_response returned
\* returns it unchanged.
C9_Idempotent ==
    /\ (IsCall(1, "validate_response") /\ Conformant(raw)) =>
          rets[1].exc = "none" /\ rets[1].val = raw
    /\ (IsCall(2, "validate_response") /\ rets[1].exc = "none") =>
          rets[2].exc = "none" /\ rets[2].val = rets[1].val

\* A conformant payload at a label boundary went through two normalizations
C9_Witness ==
    /\ IsCall(2, "validate_response")
    /\ Conformant(raw)
    /\ ValueOf(raw) = IntV(80)
    /\ rets[2].val = raw

\* A file-header marker line of a unified diff: '+++ <path>' or '--- <path>'
IsFileMarker(line) ==
    StartsWith(line, <<"+", "+", "+", " ">>) \/ StartsWith(line, <<"-", "-", "-", " ">>)

DebugPatterns == {P_print, P_console_log, P_debugger, P_println, P_fmt_Println}

\* C10: hasDebugStatements is true exactly when some added line that is no
\* file-header marker line holds one of the debug patterns somewhere after the
\* marker and the leading whitespace.
C10_DebugIffAddedPattern ==
    facts # NotComputed =>
        (facts.debug <=>
            \E r \in 1..Len(diff) :
                /\ diff[r].n > 0
                /\ StartsWith(diff[r].line, P_plus)
                /\ ~IsFileMarker(diff[r].line)
                /\ \E p \in DebugPatterns : Contains(LStrip(Tail(diff[r].line)), p))

P_hunk == <<"@", "@">>

\* Whether run r of the diff lies inside a hunk: a hunk header came before it
\* with no new file header since
InHunk(d, r) ==
    \E h \in 1..(r - 1) :
        /\ StartsWith(d[h].line, P_hunk)
        /\ \A g \in (h + 1)..(r - 1) : ~StartsWith(d[g].line, P_diff_git)

\* A dedicated filename marker line: '--- <path>' or '+++ <path>' in the file
\* header, outside the hunks
IsFilenameMarker(d, r) == IsFileMarker(d[r].line) /\ ~InHunk(d, r)

\* An added or removed content line
IsChangedLine(d, r) ==
    /\ d[r].line # <<>>
    /\ StartsWith(d[r].line, P_plus) \/ StartsWith(d[r].line, P_minus)
    /\ ~IsFilenameMarker(d, r)

RECURSIVE ChangedLinesUpTo(_, _)
ChangedLinesUpTo(d, r) ==
    IF r = 0 THEN 0
    ELSE ChangedLinesUpTo(d, r - 1) + (IF IsChangedLine(d, r) THEN d[r].n ELSE 0)

\* C11: changedLineCount is the number of non-empty lines that begin with '+'
\* or '-', less only the filename marker lines '--- <path>' and '+++ <path>':
\* an added '++i' (the line '+++i') and a removed '-- comment' (the line
\* '--- comment' inside a hunk) are counted.
C11_ChangedLineCount ==
    facts # NotComputed => facts.total_changed = ChangedLinesUpTo(diff, Len(diff))

\* The scoring step on the normalized baseline of payload p, with the facts of
\* the request's diff and message
ScoredAnalysis(p) == apply_post_rules(validate_response(p).val, Facts(diff, message))

\* C12: what analyze_commit returns to the caller is the output of the scoring
\* rules applied to the normalized payload with the diff facts and the message
\* classification of the request, so it carries the rule flags, a riskLevel and
\* riskReasons.
C12_AnalyzeReturnsScored ==
    \A i \in ReturnedCalls("analyze_commit") :
        /\ ScoredAnalysis(rets[i].arg).exc = "none"
        /\ rets[i].val = ScoredAnalysis(rets[i].arg).val
        /\ MessageFlags \cap FlagSet(rets[i].val) # {}
        /\ rets[i].val.d.riskLevel \in RiskLevels
        /\ IsStrList(rets[i].val.d.riskReasons)

====
